---- MODULE Spec2Model ----
(***************************************************************************)
(* VLSM subnet calculator (src/vlsm_table.py).  The button callback        *)
(* skuska() reads the two input widgets, parses them, runs the allocation  *)
(* loop over the sorted host counts and shows the result table.            *)
(*                                                                         *)
(* An IPv4 address is held as the four base-256 digits of its 32-bit       *)
(* integer, most significant first (TLC's integers stop at 2^31 - 1), so   *)
(* str(address) is the tuple read with dots.  A text is a sequence of      *)
(* one-character strings.                                                  *)
(***************************************************************************)
EXTENDS Integers, Sequences, FiniteSets, TLC

VARIABLES entry, hosts, pc, current_network, hosts_list, idx, current_ip,
          requested_hosts, new_prefix, at, results, errors, window

vars == <<entry, hosts, pc, current_network, hosts_list, idx, current_ip,
          requested_hosts, new_prefix, at, results, errors, window>>

\* The largest number of host counts typed into the hosts box.
MaxReq == 3

\* ---------------------------------------------------------------- numbers

RECURSIVE Pow2(_)
Pow2(n) == IF n <= 0 THEN 1 ELSE 2 * Pow2(n - 1)

Abs(n) == IF n < 0 THEN -n ELSE n

\* int.bit_length(): the number of bits of abs(n), 0 for 0.
RECURSIVE bit_length(_)
bit_length(n) == IF n = 0 THEN 0 ELSE 1 + bit_length(Abs(n) \div 2)

Min(a, b) == IF a < b THEN a ELSE b
Max(a, b) == IF a > b THEN a ELSE b

\* -------------------------------------------------------------- addresses

MAX_PREFIXLEN == 32

\* Host bits that fall into octet k (1..4) under a prefix of length p.
HostBits(k, p) == 8 - Min(8, Max(0, p - 8 * (k - 1)))

\* address & netmask
AndNetmask(a, p) == [k \in 1..4 |-> a[k] - (a[k] % Pow2(HostBits(k, p)))]

\* address | hostmask
OrHostmask(a, p) == [k \in 1..4 |-> a[k] + (Pow2(HostBits(k, p)) - 1)]

\* str(network.netmask)
netmask(p) == [k \in 1..4 |-> 256 - Pow2(HostBits(k, p))]

\* a > b on IPv4Address (compares the integers).
AddrGreater(a, b) ==
    \E k \in 1..4 : a[k] > b[k] /\ \A j \in 1..(k - 1) : a[j] = b[j]

\* IPv4Address + 1 and IPv4Address - 1: the constructor refuses a value outside
\* 0 .. 2^32 - 1 with AddressValueError, a ValueError.
NoAddress == <<0, 0, 0, 0>>
AllOnes == <<255, 255, 255, 255>>

\* An increment that gives the address back as it was.
AddrPlusOne_stuck(a) == [ok |-> TRUE, addr |-> a]

AddrPlusOne(a) ==
    IF a = AllOnes THEN [ok |-> FALSE, addr |-> NoAddress]
    ELSE LET k == CHOOSE j \in 1..4 :
                     a[j] < 255 /\ \A m \in (j + 1)..4 : a[m] = 255
         IN [ok |-> TRUE,
             addr |-> [m \in 1..4 |-> IF m < k THEN a[m]
                                       ELSE IF m = k THEN a[m] + 1 ELSE 0]]

AddrMinusOne(a) ==
    IF a = NoAddress THEN [ok |-> FALSE, addr |-> NoAddress]
    ELSE LET k == CHOOSE j \in 1..4 :
                     a[j] > 0 /\ \A m \in (j + 1)..4 : a[m] = 0
         IN [ok |-> TRUE,
             addr |-> [m \in 1..4 |-> IF m < k THEN a[m]
                                       ELSE IF m = k THEN a[m] - 1 ELSE 255]]

\* A network that keeps the address as given, host bits and all.
ip_network_as_typed(a, p) ==
    [network_address |-> a, prefixlen |-> p]

\* ipaddress.ip_network(f"{address}/{prefix}", strict=False): host bits cleared.
ip_network(a, p) ==
    [network_address |-> AndNetmask(a, p), prefixlen |-> p]

broadcast_address(n) == OrHostmask(n.network_address, n.prefixlen)

\* network.num_addresses
num_addresses(n) == Pow2(MAX_PREFIXLEN - n.prefixlen)

\* A count that forgets to leave out the network and broadcast addresses.
hosts_count_all(n) == num_addresses(n)

\* len(list(network.hosts())): every address but the network and the
\* broadcast address; both addresses of a /31; the one address of a /32.
hosts_count(n) ==
    IF n.prefixlen = MAX_PREFIXLEN THEN 1
    ELSE IF n.prefixlen = MAX_PREFIXLEN - 1 THEN 2
    ELSE num_addresses(n) - 2

\* ------------------------------------------------------------------ texts

Digits == {"0", "1", "2", "3", "4", "5", "6", "7", "8", "9"}

DigitValue(c) ==
    CASE c = "0" -> 0 [] c = "1" -> 1 [] c = "2" -> 2 [] c = "3" -> 3
      [] c = "4" -> 4 [] c = "5" -> 5 [] c = "6" -> 6 [] c = "7" -> 7
      [] c = "8" -> 8 [] c = "9" -> 9

Whitespace == {" ", "\n"}

\* str.strip()
RECURSIVE lstrip(_)
lstrip(s) ==
    IF s /= <<>> /\ Head(s) \in Whitespace THEN lstrip(Tail(s)) ELSE s

RECURSIVE rstrip(_)
rstrip(s) ==
    IF s /= <<>> /\ s[Len(s)] \in Whitespace
    THEN rstrip(SubSeq(s, 1, Len(s) - 1)) ELSE s

strip(s) == rstrip(lstrip(s))

\* str.replace(',', '\n')
replace_commas(s) == [k \in 1..Len(s) |-> IF s[k] = "," THEN "\n" ELSE s[k]]

\* str.splitlines(): the pieces between line breaks, no piece after a final one.
RECURSIVE splitlines(_)
splitlines(s) ==
    IF s = <<>> THEN <<>>
    ELSE IF \E k \in 1..Len(s) : s[k] = "\n"
         THEN LET k == CHOOSE j \in 1..Len(s) :
                           s[j] = "\n" /\ \A m \in 1..(j - 1) : s[m] /= "\n"
              IN <<SubSeq(s, 1, k - 1)>> \o splitlines(SubSeq(s, k + 1, Len(s)))
         ELSE <<s>>

\* int(text): optional sign, then one or more decimal digits; anything else
\* raises ValueError.
RECURSIVE DigitsValue(_, _)
DigitsValue(s, acc) ==
    IF s = <<>> THEN acc
    ELSE DigitsValue(Tail(s), 10 * acc + DigitValue(Head(s)))

IsDigits(s) == s /= <<>> /\ \A k \in 1..Len(s) : s[k] \in Digits

IsIntLiteral(t) ==
    LET s == strip(t)
    IN s /= <<>> /\ IF Head(s) \in {"-", "+"} THEN IsDigits(Tail(s))
                    ELSE IsDigits(s)

int(t) ==
    LET s == strip(t)
    IN IF Head(s) = "-" THEN -DigitsValue(Tail(s), 0)
       ELSE IF Head(s) = "+" THEN DigitsValue(Tail(s), 0)
       ELSE DigitsValue(s, 0)

\* The host counts left in the order typed.
sort_missing(s) == s

\* One element put into a list in descending order, after its equals.
RECURSIVE InsertDescending(_, _)
InsertDescending(x, s) ==
    IF s = <<>> THEN <<x>>
    ELSE IF x > Head(s) THEN <<x>> \o s
    ELSE <<Head(s)>> \o InsertDescending(x, Tail(s))

\* list.sort(reverse=True)
RECURSIVE sort_reverse(_)
sort_reverse(s) ==
    IF s = <<>> THEN <<>>
    ELSE InsertDescending(s[Len(s)], sort_reverse(SubSeq(s, 1, Len(s) - 1)))

NonBlank(h) == strip(h) /= <<>>

\* The tokens of the hosts text: [h for h in ...splitlines() if h.strip()].
host_tokens(hosts_raw) ==
    SelectSeq(splitlines(replace_commas(hosts_raw)), NonBlank)

\* Lines 38-47: the host counts as integers, sorted in descending order, or
\* ValueError when some token is no integer literal.
parse_hosts(hosts_raw) ==
    LET toks == host_tokens(hosts_raw)
    IN IF \E k \in 1..Len(toks) : ~IsIntLiteral(toks[k])
       THEN [ok |-> FALSE, list |-> <<>>]
       ELSE [ok |-> TRUE,
             list |-> sort_reverse([k \in 1..Len(toks) |-> int(toks[k])])]

\* The entry text "a.b.c.d/n" is held as its five numbers <<a, b, c, d, n>>,
\* the empty text as <<>>.  ipaddress.ip_network(text, strict=False) raises
\* ValueError unless the octets are 0..255 and the prefix is 0..32.
IsNetworkText(t) ==
    /\ Len(t) = 5
    /\ \A k \in 1..4 : t[k] \in 0..255
    /\ t[5] \in 0..MAX_PREFIXLEN

parse_network(t) == ip_network(<<t[1], t[2], t[3], t[4]>>, t[5])

\* ----------------------------------------------------------------- inputs

\* entry.insert(0, "192.168.1.0/24") and hosts.insert("1.0", "100\n50\n20")
DefaultEntry == <<192, 168, 1, 0, 24>>
DefaultHosts == <<"1", "0", "0", "\n", "5", "0", "\n", "2", "0">>

\* What the user types into the entry box: the default network, the two
\* networks of the specification's scenarios, a network that ends at the last
\* IPv4 address typed with host bits set, and a prefix out of range.
EntryTexts ==
    { DefaultEntry,
      <<192, 168, 1, 0, 25>>,
      <<10, 0, 0, 0, 30>>,
      <<255, 255, 255, 77, 24>>,
      <<192, 168, 1, 0, 33>> }

\* What the user types into the hosts box, one host count at a time.
HostTokens ==
    { <<"1", "0", "0">>, <<"5", "0">>, <<"2", "0">>, <<"2", "0", "0">>,
      <<"5">>, <<"0">>, <<"-", "1">>, <<"-", "5">>, <<"x">> }

\* The user separates the first two counts by ", " and puts the later ones on
\* lines of their own.
SeparatorAfter(text) ==
    IF \E k \in 1..Len(text) : text[k] \in {",", "\n"}
    THEN <<"\n">> ELSE <<",", " ">>

TokenCount(text) == Len(host_tokens(text))

\* ------------------------------------------------------------------ state

NoNetwork == [network_address |-> NoAddress, prefixlen |-> 0]

\* str(address), or the text "N/A"
NA == <<"N/A">>

Message(kind, requirement) == [kind |-> kind, requested |-> requirement]

NoWindow == [shown |-> FALSE, rows |-> <<>>, error_row |-> FALSE]

\* The locals of skuska() before the call, and nothing on the screen.
Blank ==
    /\ pc = "idle"
    /\ current_network = NoNetwork
    /\ hosts_list = <<>>
    /\ idx = 0
    /\ current_ip = NoAddress
    /\ requested_hosts = 0
    /\ new_prefix = 0
    /\ at = "none"
    /\ results = <<>>
    /\ errors = <<>>
    /\ window = NoWindow

Init ==
    /\ entry = DefaultEntry
    /\ hosts = DefaultHosts
    /\ Blank

\* -------------------------------------------------------- the loop's steps

\* The loop without the check of line 63.
space_guard_missing(h, net) == FALSE

\* Line 63: if requested_hosts + 2 > current_network.num_addresses
space_guard(h, net) == h + 2 > num_addresses(net)

\* Line 69: bits_needed = (requested_hosts + 1).bit_length()
bits_needed(h) == bit_length(h + 1)

\* The prefix with one host bit more than line 69 counted.
prefix_for_one_bit_more(h) == MAX_PREFIXLEN - (bits_needed(h) + 1)

\* Line 72: new_prefix = 32 - bits_needed
prefix_for(h) == MAX_PREFIXLEN - bits_needed(h)

\* The prefix check left out.
prefix_guard_missing(p, net) == FALSE

\* Line 75: if new_prefix < current_network.prefixlen
prefix_guard(p, net) == p < net.prefixlen

\* The boundary check left out.
boundary_guard_missing(sub, net) == FALSE

\* Line 87: if new_subnet.broadcast_address > current_network.broadcast_address
boundary_guard(sub, net) ==
    AddrGreater(broadcast_address(sub), broadcast_address(net))

\* Lines 98-105: the usable count and the two host texts; a subnet whose
\* hosts() is empty gets 0 and "N/A".
host_fields(sub, first, last) ==
    LET usable_ips == hosts_count(sub)
    IN IF usable_ips < 1
       THEN [usable |-> 0, first |-> NA, last |-> NA]
       ELSE [usable |-> usable_ips, first |-> first, last |-> last]

\* Lines 93-117: the row of the result table.
table_row(h, sub, first, last) ==
    LET f == host_fields(sub, first, last)
    IN [Requested |-> h,
        Net       |-> sub,
        Mask      |-> netmask(sub.prefixlen),
        First     |-> f.first,
        Last      |-> f.last,
        Broadcast |-> broadcast_address(sub),
        Usable    |-> f.usable]

\* Lines 59-124: one pass of the loop body for host count h with the cursor at
\* ip and the rows res so far.  exit is "next" (the loop goes on), "break" or
\* "return".
loop_body(net, h, ip, res) ==
    IF space_guard(h, net)
    THEN [at |-> "line63", exit |-> "break", new_prefix |-> 0,
          current_ip |-> ip, results |-> res,
          errors |-> <<Message("InsufficientSpace", <<h>>)>>]
    ELSE LET p == prefix_for(h) IN
    IF prefix_guard(p, net)
    THEN [at |-> "line75", exit |-> "return", new_prefix |-> p,
          current_ip |-> ip, results |-> res,
          errors |-> <<Message("PrefixTooShort", <<h>>)>>]
    ELSE LET sub == ip_network(ip, p) IN
    IF boundary_guard(sub, net)
    THEN [at |-> "line87", exit |-> "break", new_prefix |-> p,
          current_ip |-> ip, results |-> res,
          errors |-> <<Message("ParentBoundaryExceeded", <<h>>)>>]
    ELSE LET first == AddrPlusOne(sub.network_address)
             last  == AddrMinusOne(broadcast_address(sub))
             next  == AddrPlusOne(broadcast_address(sub))
         IN
    IF ~first.ok \/ ~last.ok
    THEN [at |-> "line95", exit |-> "break", new_prefix |-> p,
          current_ip |-> ip, results |-> res,
          errors |-> <<Message("CalculationError", <<>>)>>]
    ELSE LET rows == Append(res, table_row(h, sub, first.addr, last.addr)) IN
    IF ~next.ok
    THEN [at |-> "line120", exit |-> "break", new_prefix |-> p,
          current_ip |-> ip, results |-> rows,
          errors |-> <<Message("CalculationError", <<>>)>>]
    ELSE [at |-> "appended", exit |-> "next", new_prefix |-> p,
          current_ip |-> next.addr, results |-> rows, errors |-> <<>>]

\* ---------------------------------------------------------------- actions

\* Typing starts a new interaction: the callback's locals are gone and the
\* result window of the earlier run is closed.
Forget ==
    /\ pc' = "idle"
    /\ current_network' = NoNetwork
    /\ hosts_list' = <<>>
    /\ idx' = 0
    /\ current_ip' = NoAddress
    /\ requested_hosts' = 0
    /\ new_prefix' = 0
    /\ at' = "none"
    /\ results' = <<>>
    /\ errors' = <<>>
    /\ window' = NoWindow

\* The user replaces the text of the entry box 
TypeEntry ==
    /\ pc = "idle"
    /\ \E t \in EntryTexts \cup {<<>>} : entry' = t
    /\ entry' /= entry
    /\ hosts' = hosts
    /\ Forget

\* The user types one more host count into the hosts box.
TypeHosts ==
    /\ pc = "idle"
    /\ hosts = <<>> \/ TokenCount(hosts) \in 1..(MaxReq - 1)
    /\ \E t \in HostTokens :
          hosts' = IF hosts = <<>> THEN t ELSE hosts \o SeparatorAfter(hosts) \o t
    /\ entry' = entry
    /\ Forget

\* The user types a lone comma into the empty hosts box.
TypeComma ==
    /\ pc = "idle"
    /\ hosts = <<>>
    /\ hosts' = <<",">>
    /\ entry' = entry
    /\ Forget

\* The user empties the hosts box.
ClearHosts ==
    /\ pc = "idle"
    /\ hosts /= <<>>
    /\ hosts' = <<>>
    /\ entry' = entry
    /\ Forget

\* Lines 23-51: both inputs read and parsed.  kind is "ok", or the error
\* shown before skuska() returns.
read_inputs(ip_input, hosts_raw) ==
    LET parsed == parse_hosts(hosts_raw)
        Stop(kind, net) == [kind |-> kind, network |-> net, list |-> <<>>]
    IN IF ip_input = <<>> \/ hosts_raw = <<>>
       THEN Stop("MissingInput", NoNetwork)
       ELSE IF ~IsNetworkText(ip_input)
       THEN Stop("InvalidNetworkFormat", NoNetwork)
       ELSE IF ~parsed.ok
       THEN Stop("InvalidHostCount", parse_network(ip_input))
       ELSE IF parsed.list = <<>>
       THEN Stop("EmptyRequirementList", parse_network(ip_input))
       ELSE [kind |-> "ok", network |-> parse_network(ip_input),
             list |-> parsed.list]

\* The same callback with results kept in a list that outlives the call: the
\* rows of the call before are still in it.
Click_keeping_rows ==
    /\ pc = "idle"
    /\ UNCHANGED <<entry, hosts>>
    /\ LET in == read_inputs(entry, strip(hosts))
       IN /\ current_network' = in.network
          /\ hosts_list' = in.list
          /\ errors' = IF in.kind = "ok" THEN <<>>
                       ELSE <<Message(in.kind, <<>>)>>
          /\ pc' = IF in.kind = "ok" THEN "loop" ELSE "idle"
          /\ idx' = IF in.kind = "ok" THEN 1 ELSE 0
          /\ current_ip' = IF in.kind = "ok" THEN in.network.network_address
                           ELSE NoAddress
    /\ requested_hosts' = 0
    /\ new_prefix' = 0
    /\ at' = "none"
    /\ results' = results
    /\ window' = NoWindow

\* Lines 23-56: the button is pressed; skuska() reads and parses both inputs,
\* and starts with no rows and the cursor at the network address.
Click ==
    /\ pc = "idle"
    /\ UNCHANGED <<entry, hosts>>
    /\ LET in == read_inputs(entry, strip(hosts))
       IN /\ current_network' = in.network
          /\ hosts_list' = in.list
          /\ errors' = IF in.kind = "ok" THEN <<>>
                       ELSE <<Message(in.kind, <<>>)>>
          /\ pc' = IF in.kind = "ok" THEN "loop" ELSE "idle"
          /\ idx' = IF in.kind = "ok" THEN 1 ELSE 0
          /\ current_ip' = IF in.kind = "ok" THEN in.network.network_address
                           ELSE NoAddress
    /\ requested_hosts' = 0
    /\ new_prefix' = 0
    /\ at' = "none"
    /\ results' = <<>>
    /\ window' = NoWindow

\* The loop with continue where lines 66, 90 and 124 have break: after a pass
\* that failed, the next host count gets its pass.
LoopStep_continue ==
    /\ pc = "loop"
    /\ LET h == hosts_list[idx]
           b == loop_body(current_network, h, current_ip, results)
       IN /\ requested_hosts' = h
          /\ new_prefix' = b.new_prefix
          /\ at' = b.at
          /\ current_ip' = b.current_ip
          /\ results' = b.results
          /\ errors' = b.errors
          /\ idx' = IF b.exit = "return" THEN idx ELSE idx + 1
          /\ pc' = IF b.exit = "return" THEN "idle"
                   ELSE IF idx = Len(hosts_list) THEN "display" ELSE "loop"
    /\ UNCHANGED <<entry, hosts, current_network, hosts_list, window>>

\* Lines 59-124: one iteration of the allocation loop.
LoopStep ==
    /\ pc = "loop"
    /\ LET h == hosts_list[idx]
           b == loop_body(current_network, h, current_ip, results)
       IN /\ requested_hosts' = h
          /\ new_prefix' = b.new_prefix
          /\ at' = b.at
          /\ current_ip' = b.current_ip
          /\ results' = b.results
          /\ errors' = b.errors
          /\ idx' = IF b.exit = "next" THEN idx + 1 ELSE idx
          /\ pc' = IF b.exit = "return" THEN "idle"
                   ELSE IF b.exit = "break" \/ idx = Len(hosts_list)
                   THEN "display" ELSE "loop"
    /\ UNCHANGED <<entry, hosts, current_network, hosts_list, window>>

\* Lines 128-164: the result window with the table of the rows, or with the
\* one row of "N/A" when there is none.
Display ==
    /\ pc = "display"
    /\ window' = [shown |-> TRUE, rows |-> results, error_row |-> results = <<>>]
    /\ pc' = "idle"
    /\ UNCHANGED <<entry, hosts, current_network, hosts_list, idx, current_ip,
                   requested_hosts, new_prefix, at, results, errors>>

Next ==
    \/ TypeEntry
    \/ TypeHosts
    \/ TypeComma
    \/ ClearHosts
    \/ Click
    \/ LoopStep
    \/ Display

Spec == Init /\ [][Next]_vars

\* ------------------------------------------------- calls after other calls

\* The same program with what the call before left behind still in place while
\* the user types: every variable of that call keeps its last value until the
\* next call assigns it.  Fewer texts are typed to keep the histories few.
MaxHistoryReq == 2

HistoryEntries ==
    {DefaultEntry, <<192, 168, 1, 0, 25>>, <<255, 255, 255, 77, 24>>}

HistoryTokens == { <<"1", "0", "0">>, <<"2", "0", "0">>, <<"5">>, <<"x">> }

RetypeEntry ==
    /\ pc = "idle"
    /\ \E t \in HistoryEntries \cup {<<>>} : entry' = t
    /\ entry' /= entry
    /\ UNCHANGED <<hosts, pc, current_network, hosts_list, idx, current_ip,
                   requested_hosts, new_prefix, at, results, errors, window>>

RetypeHosts ==
    /\ pc = "idle"
    /\ hosts = <<>> \/ TokenCount(hosts) \in 1..(MaxHistoryReq - 1)
    /\ \E t \in HistoryTokens :
          hosts' = IF hosts = <<>> THEN t ELSE hosts \o SeparatorAfter(hosts) \o t
    /\ UNCHANGED <<entry, pc, current_network, hosts_list, idx, current_ip,
                   requested_hosts, new_prefix, at, results, errors, window>>

EraseHosts ==
    /\ pc = "idle"
    /\ hosts /= <<>>
    /\ hosts' = <<>>
    /\ UNCHANGED <<entry, pc, current_network, hosts_list, idx, current_ip,
                   requested_hosts, new_prefix, at, results, errors, window>>

NextHistory ==
    \/ RetypeEntry
    \/ RetypeHosts
    \/ EraseHosts
    \/ Click
    \/ LoopStep
    \/ Display

SpecHistory == Init /\ [][NextHistory]_vars

\* ------------------------------------------------------- the call as a whole

\* Lines 59-124: the loop from the k-th host count on.
RECURSIVE loop(_, _, _, _, _)
loop(net, list, k, ip, res) ==
    IF k > Len(list) THEN [exit |-> "done", results |-> res, errors |-> <<>>]
    ELSE LET b == loop_body(net, list[k], ip, res)
         IN IF b.exit = "next" THEN loop(net, list, k + 1, b.current_ip, b.results)
            ELSE [exit |-> b.exit, results |-> b.results, errors |-> b.errors]

\* Lines 18-164: what one call of skuska() shows for the two texts.
skuska(ip_input, hosts_text) ==
    LET in == read_inputs(ip_input, strip(hosts_text))
    IN IF in.kind /= "ok"
       THEN [errors |-> <<Message(in.kind, <<>>)>>, window |-> NoWindow]
       ELSE LET r == loop(in.network, in.list, 1, in.network.network_address, <<>>)
            IN [errors |-> r.errors,
                window |-> IF r.exit = "return" THEN NoWindow
                           ELSE [shown |-> TRUE, rows |-> r.results,
                                 error_row |-> r.results = <<>>]]

\* ------------------------------------------------------------ vocabulary

\* skuska() has returned from a call.
Returned == pc = "idle" /\ (errors /= <<>> \/ window.shown)

\* The kinds of error the loop's three checks report.
GuardErrors == {"InsufficientSpace", "PrefixTooShort", "ParentBoundaryExceeded"}

Failed(kind) == errors /= <<>> /\ errors[1].kind = kind

\* The last pass of the loop body got as far as computing new_prefix.
Sized == at \in {"line75", "line87", "line95", "line120", "appended"}

\* The address as a count of addresses above base (both inside one /2).
Offset(a, base) ==
    (a[1] - base[1]) * 16777216 + (a[2] - base[2]) * 65536
      + (a[3] - base[3]) * 256 + (a[4] - base[4])

\* Addresses of net from the cursor ip to the last address of net.
Remaining(ip, net) ==
    Max(0, Offset(broadcast_address(net), net.network_address)
             - Offset(ip, net.network_address) + 1)

Overlap(s, t) ==
    /\ ~AddrGreater(s.network_address, broadcast_address(t))
    /\ ~AddrGreater(t.network_address, broadcast_address(s))

\* The texts with the same host counts typed in another order.
RECURSIVE Typed(_, _)
Typed(text, toks) ==
    IF toks = <<>> THEN text
    ELSE Typed(IF text = <<>> THEN strip(Head(toks))
               ELSE text \o SeparatorAfter(text) \o strip(Head(toks)),
               Tail(toks))

Reordered(text) ==
    LET toks == host_tokens(strip(text))
    IN {Typed(<<>>, [k \in 1..Len(toks) |-> toks[f[k]]]) :
          f \in Permutations(1..Len(toks))}

\* ------------------------------------------------------------------ claims

\* C1: every subnet among the rows lies inside the parent network: its network
\* address is not below the parent's network address and its broadcast address
\* is not above the parent's broadcast address.
C1_SubnetsInsideParent ==
    \A k \in 1..Len(results) :
        /\ ~AddrGreater(current_network.network_address,
                        results[k].Net.network_address)
        /\ ~AddrGreater(results[k].Broadcast, broadcast_address(current_network))
        /\ results[k].Broadcast = broadcast_address(results[k].Net)

\* A run that placed several subnets and showed them.
C1_Witness == Returned /\ window.shown /\ Len(window.rows) >= 2

\* C2: no two subnets among the rows overlap, and each subnet starts one
\* address after the broadcast address of the subnet before it.
C2_ContiguousNoOverlap ==
    /\ \A j, k \in 1..Len(results) :
          j < k => ~Overlap(results[j].Net, results[k].Net)
    /\ \A k \in 1..(Len(results) - 1) :
          LET after == AddrPlusOne(results[k].Broadcast)
          IN after.ok /\ results[k + 1].Net.network_address = after.addr

\* C3: whenever the sizing step ran for host count h, the block of the prefix
\* it computed, 2^(32 - p), is the smallest power of two that is >= h + 2; and
\* 2 gives /30, 6 gives /29, 254 gives /24.
C3_SmallestBlock ==
    /\ Sized =>
         LET bits == MAX_PREFIXLEN - new_prefix
         IN /\ bits >= 0
            /\ Pow2(bits) >= requested_hosts + 2
            /\ bits > 0 => Pow2(bits - 1) < requested_hosts + 2
    /\ prefix_for(2) = 30 /\ prefix_for(6) = 29 /\ prefix_for(254) = 24

\* C4: after a run that failed on some requirement with InsufficientSpace,
\* PrefixTooShort or ParentBoundaryExceeded, no allocation rows are shown.
C4_NoRowsAfterFailure ==
    (Returned /\ errors /= <<>> /\ errors[1].kind \in GuardErrors)
        => window.rows = <<>>

\* C5: when some token of the hosts text is not a positive integer, the call
\* (its network text being valid) ends with InvalidHostCount before any pass of
\* the loop.
PositiveInteger(t) == IsIntLiteral(t) /\ int(t) > 0

C5_NonPositiveRejected ==
    LET toks == host_tokens(strip(hosts))
    IN (/\ pc /= "idle" \/ Returned
        /\ IsNetworkText(entry)
        /\ \E k \in 1..Len(toks) : ~PositiveInteger(toks[k]))
       => (Failed("InvalidHostCount") /\ pc = "idle" /\ at = "none")

\* The scenario of C6: parent 192.168.1.0/25 and the one host count 200.
Scenario200 ==
    /\ entry = <<192, 168, 1, 0, 25>>
    /\ strip(hosts) = <<"2", "0", "0">>

\* Whenever the prefix computed at line 72 is shorter than the parent's, the
\* call reports PrefixTooShort for that host count and returns at once: no
\* further pass, no result window.
PrefixTooShortStops ==
    (Sized /\ new_prefix < current_network.prefixlen)
        => /\ errors = <<Message("PrefixTooShort", <<requested_hosts>>)>>
           /\ pc = "idle"
           /\ ~window.shown
           /\ at = "line75"

\* C6 as stated: a computed prefix shorter than the parent's prefix ends the
\* run with PrefixTooShort, and parent 192.168.1.0/25 with [200] ends with
\* PrefixTooShort.
C6_Original ==
    /\ PrefixTooShortStops
    /\ (Scenario200 /\ Returned) => Failed("PrefixTooShort")

\* C6 as amended: a computed prefix shorter than the parent's prefix ends the
\* run with PrefixTooShort; parent 192.168.1.0/25 with [200] never gets to
\* computing a prefix: it ends with InsufficientSpace for 200 (202 > 128).
C6_Amended ==
    /\ PrefixTooShortStops
    /\ (Scenario200 /\ Returned)
          => /\ errors = <<Message("InsufficientSpace", <<200>>)>>
             /\ at = "line63"

\* A run stopped by the prefix check.
C6_Witness == Returned /\ at = "line75" /\ Failed("PrefixTooShort")

\* C7: a pass of the loop that starts with fewer than requirement + 2
\* addresses of the parent left from the cursor on ends the run with
\* InsufficientSpace for that requirement.
C7_RemainingSpaceChecked ==
    [][(pc = "loop" /\ Remaining(current_ip, current_network)
                           < hosts_list[idx] + 2)
         => /\ errors' = <<Message("InsufficientSpace", <<hosts_list[idx]>>)>>
            /\ pc' = "display"]_vars

\* C8: a call whose hosts text holds the same host counts in another order
\* shows the same errors and the same table.
C8_OrderIndependent ==
    (Returned /\ host_tokens(strip(hosts)) /= <<>>)
        => \A text \in Reordered(hosts) :
               skuska(entry, text) = [errors |-> errors, window |-> window]

\* A finished run over three host counts that were not typed in descending
\* order.
C8_Witness ==
    LET toks == host_tokens(strip(hosts))
    IN /\ Returned /\ window.shown /\ Len(window.rows) = 3
       /\ Len(toks) = 3
       /\ int(toks[1]) < int(toks[2])

\* C9: every row's usable count is the subnet's address count minus 2, except
\* that a /31 or /32 row has usable count 0 and "N/A" for both hosts.
C9_UsableCount ==
    \A k \in 1..Len(results) :
        LET r == results[k]
        IN IF r.Net.prefixlen >= MAX_PREFIXLEN - 1
           THEN r.Usable = 0 /\ r.First = NA /\ r.Last = NA
           ELSE r.Usable = num_addresses(r.Net) - 2

\* C10: parent 192.168.1.0/24 with the host counts 100, 50 and 20 typed in any
\* order ends without error and shows exactly the three rows of the scenario.
Scenario100_50_20 ==
    LET toks == host_tokens(strip(hosts))
    IN /\ entry = <<192, 168, 1, 0, 24>>
       /\ Len(toks) = 3
       /\ {strip(toks[k]) : k \in 1..3}
             = {<<"1", "0", "0">>, <<"5", "0">>, <<"2", "0">>}

ScenarioRow(h, a, p, m, f, l, b, u) ==
    [Requested |-> h,
     Net       |-> [network_address |-> <<192, 168, 1, a>>, prefixlen |-> p],
     Mask      |-> <<255, 255, 255, m>>,
     First     |-> <<192, 168, 1, f>>,
     Last      |-> <<192, 168, 1, l>>,
     Broadcast |-> <<192, 168, 1, b>>,
     Usable    |-> u]

C10_DefaultScenario ==
    (Scenario100_50_20 /\ Returned)
        => /\ errors = <<>>
           /\ window.shown /\ ~window.error_row
           /\ window.rows = << ScenarioRow(100, 0, 25, 128, 1, 126, 127, 126),
                               ScenarioRow(50, 128, 26, 192, 129, 190, 191, 62),
                               ScenarioRow(20, 192, 27, 224, 193, 222, 223, 30) >>

\* The scenario run to its end from a text in another order than the default.
C10_Witness ==
    /\ Scenario100_50_20 /\ Returned /\ window.shown
    /\ hosts /= DefaultHosts

\* The largest host count of a list that is not empty.
Largest(list) ==
    CHOOSE h \in {list[k] : k \in 1..Len(list)} :
        \A k \in 1..Len(list) : list[k] <= h

\* The scenario of C11: parent 10.0.0.0/30 and the one host count 5.
Scenario5 ==
    /\ entry = <<10, 0, 0, 0, 30>>
    /\ strip(hosts) = <<"5">>

\* C11: when the largest host count plus 2 exceeds the parent's address count,
\* the first pass of the loop ends the run with InsufficientSpace for that
\* host count and no row exists then or later; parent 10.0.0.0/30 with the
\* host count 5 ends so.
C11_LargestTooBig ==
    /\ (/\ hosts_list /= <<>>
        /\ at /= "none"
        /\ Largest(hosts_list) + 2 > num_addresses(current_network))
          => /\ errors = <<Message("InsufficientSpace", <<Largest(hosts_list)>>)>>
             /\ at = "line63"
             /\ idx = 1
             /\ results = <<>>
             /\ window.rows = <<>>
    /\ (Scenario5 /\ Returned)
          => /\ errors = <<Message("InsufficientSpace", <<5>>)>>
             /\ window.rows = <<>>

\* The scenario of C11 run to its end.
C11_Witness == Scenario5 /\ Returned /\ at = "line63" /\ results = <<>>

\* The entry text names an address with host bits set under its prefix.
HostBitsSet(t) ==
    /\ Len(t) = 5
    /\ \E k \in 1..4 : t[k] % Pow2(HostBits(k, t[5])) /= 0

\* The address of the entry text with every host bit cleared.
Canonical(t) ==
    [k \in 1..4 |-> t[k] - (t[k] % Pow2(HostBits(k, t[5])))]

\* C12: an entry text of octets 0..255 and prefix 0..32 is accepted whether or
\* not its address has host bits set; the parent network is that address with
\* the host bits cleared, the loop starts with the cursor there, and the first
\* row's subnet starts there.
C12_HostBitsCleared ==
    (/\ Len(entry) = 5
     /\ \A k \in 1..4 : entry[k] \in 0..255
     /\ entry[5] \in 0..32
     /\ strip(hosts) /= <<>>
     /\ pc /= "idle" \/ Returned)
        => /\ ~Failed("InvalidNetworkFormat")
           /\ current_network.prefixlen = entry[5]
           /\ current_network.network_address = Canonical(entry)
           /\ (pc = "loop" /\ idx = 1) => current_ip = Canonical(entry)
           /\ results /= <<>> => results[1].Net.network_address = Canonical(entry)

\* A run on 255.255.255.77/24 whose first row starts at 255.255.255.0.
C12_Witness ==
    /\ HostBitsSet(entry) /\ Returned /\ window.shown
    /\ window.rows /= <<>>
    /\ window.rows[1].Net.network_address = <<255, 255, 255, 0>>
    /\ <<entry[1], entry[2], entry[3], entry[4]>> /= <<255, 255, 255, 0>>

\* C13: whatever calls came before and whatever they left behind, a call
\* starts the loop with no rows and the cursor at its own parent's network
\* address, and ends with the errors and the window that the two texts it read
\* determine.
C13_OwnInputsOnly ==
    [][(entry' = entry /\ hosts' = hosts)
         => /\ (pc = "idle" /\ pc' = "loop")
                 => /\ results' = <<>>
                    /\ current_ip' = Canonical(entry)
            /\ pc' = "idle"
                 => [errors |-> errors', window |-> window']
                       = skuska(entry, hosts)]_vars

\* The button can be pressed for a call on two valid texts while the rows, the
\* error and the window that an earlier call on other texts left are in place.
C13_Witness ==
    /\ pc = "idle" /\ window.shown /\ window.rows /= <<>> /\ errors /= <<>>
    /\ read_inputs(entry, strip(hosts)).kind = "ok"
    /\ skuska(entry, hosts) /= [errors |-> errors, window |-> window]
    /\ skuska(entry, hosts).window.rows /= <<>>

\* The last pass of the loop ended at a check that failed or at an address
\* computation that raised.
Stopped == at \in {"line63", "line75", "line87", "line95", "line120"}

\* C14: a pass of the loop that fails is the last pass of its call.  The loop
\* is not entered again; until the call is over the cursor, the rows, the
\* position in the sorted list and the last prefix computed stay as that pass
\* left them; every row is for a host count at or before that position.
C14_StopsAtFirstFailure ==
    [][/\ Stopped' =>
            /\ pc' /= "loop"
            /\ errors' /= <<>>
            /\ Len(results') <= idx'
            /\ \A k \in 1..Len(results') :
                  results'[k].Requested = hosts_list'[k]
            /\ window'.shown => window'.rows = results'
       /\ (Stopped /\ pc /= "idle") =>
            /\ current_ip' = current_ip
            /\ results' = results
            /\ idx' = idx
            /\ new_prefix' = new_prefix
            /\ requested_hosts' = requested_hosts
            /\ at' = at]_vars

\* A call over after a pass that failed, with a smaller host count behind it
\* in the sorted list that got no pass and no row.
C14_Witness ==
    /\ Returned /\ Stopped /\ window.shown
    /\ idx < Len(hosts_list)
    /\ Len(window.rows) = idx - 1
    /\ window.rows /= <<>>
    /\ hosts_list[idx + 1] < hosts_list[idx]

\* C15: a call enters the loop with the cursor at the parent's network
\* address.  A pass of the loop either fails and leaves the cursor where it
\* was, or appends one row and moves the cursor to the address one after that
\* row's broadcast address, which is above the cursor's address before; no
\* other step of a call moves the cursor.
C15_CursorMonotone ==
    [][/\ (pc = "idle" /\ pc' = "loop")
            => current_ip' = current_network'.network_address
       /\ pc = "loop" =>
            \/ /\ errors' /= <<>>
               /\ current_ip' = current_ip
            \/ /\ errors' = <<>>
               /\ Len(results') = Len(results) + 1
               /\ Offset(current_ip', results'[Len(results')].Broadcast) = 1
               /\ AddrGreater(current_ip', current_ip)
       /\ pc = "display" => current_ip' = current_ip]_vars

\* Two passes have moved the cursor, the second from above the parent's
\* network address.
C15_Witness ==
    /\ pc /= "idle" /\ Len(results) = 2 /\ errors = <<>>
    /\ Offset(current_ip, results[2].Broadcast) = 1
    /\ AddrGreater(results[2].Net.network_address,
                   current_network.network_address)

\* Every host count of the sorted list is >= 0.
NonNegative == \A k \in 1..Len(hosts_list) : hosts_list[k] >= 0

\* The address is a multiple of the block size of prefix p.
Aligned(a, p) == \A k \in 1..4 : a[k] % Pow2(HostBits(k, p)) = 0

\* C16: when no host count is negative, every pass that builds a candidate
\* subnet finds the cursor at a multiple of the candidate's block size; a row
\* it appends is for the subnet that starts at the cursor and ends one block
\* size minus one after it.
C16_CursorAligned ==
    [][(/\ pc = "loop" /\ NonNegative
        /\ at' \in {"line87", "line95", "line120", "appended"})
         => /\ Aligned(current_ip, new_prefix')
            /\ Len(results') > Len(results) =>
                  LET r == results'[Len(results')]
                  IN /\ r.Net.network_address = current_ip
                     /\ r.Net.prefixlen = new_prefix'
                     /\ Offset(r.Broadcast, current_ip)
                           = Pow2(MAX_PREFIXLEN - new_prefix') - 1]_vars

\* Three rows of three block sizes, each subnet starting where the cursor was.
C16_Witness ==
    /\ NonNegative /\ Len(results) = 3 /\ at = "appended"
    /\ results[1].Net.prefixlen < results[2].Net.prefixlen
    /\ results[2].Net.prefixlen < results[3].Net.prefixlen
    /\ Offset(results[3].Net.network_address, results[2].Broadcast) = 1

\* The largest host count of the arithmetic check of C17.
MaxHostsChecked == 600

\* For a parent of any prefix length whose address count TLC's integers hold,
\* a host count >= 0 whose prefix would be shorter than the parent's has
\* already failed the check of line 63.
PrefixCheckCovered ==
    \A p \in 2..MAX_PREFIXLEN : \A h \in 0..MaxHostsChecked :
        (MAX_PREFIXLEN - bit_length(h + 1) < p)
            => h + 2 > Pow2(MAX_PREFIXLEN - p)

\* C17: when no host count is negative, no pass of the loop ends at the prefix
\* check of line 75: a pass for a host count whose prefix would be shorter
\* than the parent's ends at line 63 with InsufficientSpace.
C17_PrefixBranchDead ==
    /\ (NonNegative /\ at /= "none")
          => /\ at /= "line75"
             /\ ~Failed("PrefixTooShort")
             /\ (MAX_PREFIXLEN - bit_length(requested_hosts + 1)
                    < current_network.prefixlen)
                   => /\ at = "line63"
                      /\ errors = <<Message("InsufficientSpace",
                                            <<requested_hosts>>)>>
    /\ Init => PrefixCheckCovered

\* A pass for a host count >= 0 whose prefix would be shorter than the
\* parent's, ended by the check of line 63.
C17_Witness ==
    /\ NonNegative /\ Returned /\ at = "line63"
    /\ requested_hosts >= 0
    /\ MAX_PREFIXLEN - bit_length(requested_hosts + 1)
          < current_network.prefixlen

\* The smallest power of two that is >= n, from the power of two b on.
RECURSIVE SmallestPow2(_, _)
SmallestPow2(n, b) == IF b >= n THEN b ELSE SmallestPow2(n, 2 * b)

\* The block sizes of the host counts, added up.
RECURSIVE SumBlocks(_)
SumBlocks(list) ==
    IF list = <<>> THEN 0
    ELSE SmallestPow2(Head(list) + 2, 1) + SumBlocks(Tail(list))

\* The host counts are >= 0 and their blocks fit into the parent together.
Fits ==
    /\ hosts_list /= <<>> /\ NonNegative
    /\ SumBlocks(hosts_list) <= num_addresses(current_network)

\* C18: a call on any parent, a parent that ends at 255.255.255.255 included,
\* with host counts >= 0 whose block sizes add up to no more than the parent's
\* address count ends without an error and shows one row for every host count.
C18_FittingRunSucceeds ==
    (Returned /\ Fits)
        => /\ errors = <<>>
           /\ window.shown
           /\ Len(window.rows) = Len(hosts_list)
           /\ \A k \in 1..Len(hosts_list) :
                 window.rows[k].Requested = hosts_list[k]

====
